---- MODULE Spec2Model ----
(***************************************************************************)
(* Model of the Windows resolution engine of standard_paths:               *)
(*   src/src/lib.rs      LocationType, StandardPaths (the facade)          *)
(*   src/src/windows.rs  SafePwstr, sh_get_known_folder_path!,             *)
(*                       writable_location_impl, standard_locations_impl   *)
(*                                                                         *)
(* A path is a sequence of components; the first component of an absolute  *)
(* path is its drive prefix together with the root ("C:" stands for C:\).  *)
(* An Option is a sequence of length 0 (None) or 1 (Some).                 *)
(* One behaviour is one call of the facade on one StandardPaths value in   *)
(* one state of the operating system, executed statement by statement.     *)
(***************************************************************************)
EXTENDS Naturals, Sequences, FiniteSets, TLC

\* How many of the operating system's queries may fail in one behaviour.
MaxFailing == 2

(***************************************************************************)
(* lib.rs: the location catalog                                            *)
(***************************************************************************)
LocationType ==
    { "HomeLocation", "DesktopLocation", "DocumentsLocation", "DownloadLocation",
      "MoviesLocation", "MusicLocation", "PicturesLocation", "ApplicationsLocation",
      "FontsLocation", "RuntimeLocation", "TempLocation", "GenericDataLocation",
      "AppDataLocation", "AppLocalDataLocation", "GenericCacheLocation",
      "AppCacheLocation", "ConfigLocation", "GenericConfigLocation",
      "AppConfigLocation" }

\* windows.rs names a CacheLocation in its cache arm; the catalog of lib.rs
\* has no such variant, so no value of LocationType is equal to it.
CacheLocation == "CacheLocation"

(***************************************************************************)
(* Option<T> and PathBuf                                                   *)
(***************************************************************************)
None == << >>
Some(v) == << v >>

\* Drive prefixes (with their root) and the mark of a root without a prefix.
Prefixes == { "C:", "D:" }
RootMark == "\\"

\* std PathBuf::push on Windows: an argument with a prefix replaces the
\* path, an argument with a root and no prefix replaces everything but the
\* prefix of the path, any other argument is appended.
Push(path, p) ==
    IF p = << >> THEN path
    ELSE IF p[1] \in Prefixes THEN p
    ELSE IF p[1] = RootMark
         THEN (IF path # << >> /\ path[1] \in Prefixes THEN << path[1] >> ELSE << >>)
              \o Tail(p)
    ELSE path \o p

\* std Path::parent: the path without its final component, if there is one
\* after the prefix.
Parent(path) ==
    IF Len(path) <= 1 THEN None ELSE Some(SubSeq(path, 1, Len(path) - 1))

(***************************************************************************)
(* windows.rs: the known folders                                           *)
(***************************************************************************)
FOLDERID_Desktop == "Desktop"
FOLDERID_Documents == "Documents"
FOLDERID_Fonts == "Fonts"
FOLDERID_Programs == "Programs"
FOLDERID_Music == "Music"
FOLDERID_Videos == "Videos"
FOLDERID_Pictures == "Pictures"
FOLDERID_Downloads == "Downloads"
FOLDERID_LocalAppData == "LocalAppData"
FOLDERID_RoamingAppData == "RoamingAppData"
FOLDERID_ProgramData == "ProgramData"
\* The all-zero GUID of the catch-all arm: no known folder has it.
GUID_Zero == "GUID_Zero"

FolderIds ==
    { FOLDERID_Desktop, FOLDERID_Documents, FOLDERID_Fonts, FOLDERID_Programs,
      FOLDERID_Music, FOLDERID_Videos, FOLDERID_Pictures, FOLDERID_Downloads,
      FOLDERID_LocalAppData, FOLDERID_RoamingAppData, FOLDERID_ProgramData }

\* What the operating system answers, when it answers.
KnownFolder(id) == << "C:", id >>
HomeDir == << "C:", "Users", "me" >>
TempDir == << "C:", "Temp" >>
ExePath == << "C:", "bin", "tool.exe" >>

\* The queries of the operating system that can fail.
Queries == FolderIds \cup { "home_dir", "current_exe" }

\* The names a StandardPaths can be built with (new, new_with_names): empty,
\* a plain name, a name with a drive prefix, a name with a root.
OrganisationNames == { << >>, << "org" >>, << "D:", "corp" >> }
AppNames == { << >>, << "app" >>, << RootMark, "tool" >> }

NULL == 0

VARIABLES
    app_name,           \* StandardPaths.app_name
    organisation_name,  \* StandardPaths.organisation_name
    failing,            \* the queries the operating system fails
    phase,              \* "idle", "running", "done" or "crashed"
    op,                 \* the facade method called
    location,           \* its argument
    stack,              \* the frames of the calls in progress, innermost last
    ret,                \* the value the last inner call returned
    result,             \* the value the facade method returned
    heap                \* the buffers SHGetKnownFolderPath has allocated

vars == << app_name, organisation_name, failing, phase, op, location,
           stack, ret, result, heap >>

context == << app_name, organisation_name, failing >>

Frame(fn, loc) ==
    [ fn |-> fn, location |-> loc, pc |-> "start", id |-> GUID_Zero,
      ok |-> FALSE, raw |-> NULL, path |-> << >>, dirs |-> << >> ]

Top == stack[Len(stack)]
SetTop(f) == [ stack EXCEPT ![Len(stack)] = f ]
Running(fn, pc) ==
    /\ phase = "running"
    /\ Top.fn = fn
    /\ Top.pc = pc

Init ==
    /\ app_name \in AppNames
    /\ organisation_name \in OrganisationNames
    /\ failing \in { F \in SUBSET Queries : Cardinality(F) <= MaxFailing }
    /\ phase = "idle"
    /\ op = "none"
    /\ location = "none"
    /\ stack = << >>
    /\ ret = None
    /\ result = None
    /\ heap = << >>

(***************************************************************************)
(* lib.rs: the facade                                                      *)
(***************************************************************************)
\* A slip in append_organization_and_app: the application before the organization.
append_app_and_organization(path) ==
    LET p1 == IF app_name # << >> THEN Push(path, app_name) ELSE path
    IN  IF organisation_name # << >> THEN Push(p1, organisation_name) ELSE p1

\* Append application suffix to the path.
append_organization_and_app(path) ==
    LET p1 == IF organisation_name # << >> THEN Push(path, organisation_name) ELSE path
    IN  IF app_name # << >> THEN Push(p1, app_name) ELSE p1

writable_location ==
    /\ phase = "idle"
    /\ \E loc \in LocationType :
          /\ location' = loc
          /\ stack' = << Frame("writable", loc) >>
    /\ op' = "writable_location"
    /\ phase' = "running"
    /\ UNCHANGED << context, ret, result, heap >>

standard_locations ==
    /\ phase = "idle"
    /\ \E loc \in LocationType :
          /\ location' = loc
          /\ stack' = << Frame("standard", loc) >>
    /\ op' = "standard_locations"
    /\ phase' = "running"
    /\ UNCHANGED << context, ret, result, heap >>

\* A call of writable_location from inside the engine: the caller waits at
\* pc `after` for the value.
CallWritable(caller, after, loc) ==
    stack' = Append(SetTop([ caller EXCEPT !.pc = after ]), Frame("writable", loc))

\* The innermost call returns v: to its caller, or to the facade's caller.
Return(v) ==
    /\ stack' = SubSeq(stack, 1, Len(stack) - 1)
    /\ IF Len(stack) = 1
       THEN /\ phase' = "done"
            /\ result' = v
            /\ ret' = ret
       ELSE /\ phase' = phase
            /\ result' = result
            /\ ret' = v

(***************************************************************************)
(* windows.rs: SafePwstr and sh_get_known_folder_path!                     *)
(***************************************************************************)
Buffer(content) == [ content |-> content, state |-> "live", frees |-> 0, stale |-> FALSE ]

\* What reading a null PWSTR can yield when the process survives the read.
Garbage == << "?" >>

\* let mut raw_path = SafePwstr::new();
\* let ok = SHGetKnownFolderPath(&id, 0, null, raw_path.as_mut()) == 0;
\* On success the system allocates the string.  On failure it leaves the
\* pointer null, or hands out a buffer the caller still has to free (the
\* API asks for CoTaskMemFree whether the call succeeds or not).
SHGetKnownFolderPath ==
    /\ phase = "running"
    /\ Top.pc = "query"
    /\ \/ /\ Top.id \in FolderIds \ failing
          /\ heap' = Append(heap, Buffer(KnownFolder(Top.id)))
          /\ stack' = SetTop([ Top EXCEPT !.ok = TRUE, !.raw = Len(heap) + 1, !.pc = "into" ])
       \/ /\ Top.id \notin FolderIds \ failing
          /\ heap' = heap
          /\ stack' = SetTop([ Top EXCEPT !.ok = FALSE, !.raw = NULL, !.pc = "into" ])
       \/ /\ Top.id \notin FolderIds \ failing
          /\ heap' = Append(heap, Buffer(<< >>))
          /\ stack' = SetTop([ Top EXCEPT !.ok = FALSE, !.raw = Len(heap) + 1, !.pc = "into" ])
    /\ UNCHANGED << context, phase, op, location, ret, result >>

\* let path: PathBuf = raw_path.into();  -- the body of into(): the wide
\* string is measured and copied, whatever `ok` was.
Into ==
    /\ phase = "running"
    /\ Top.pc = "into"
    /\ Top.raw # NULL
    /\ heap' = [ heap EXCEPT ![Top.raw].stale = @ \/ heap[Top.raw].state = "freed" ]
    /\ stack' = SetTop([ Top EXCEPT !.path = heap[Top.raw].content, !.pc = "drop" ])
    /\ UNCHANGED << context, phase, op, location, ret, result >>

\* into() on a null pointer dereferences it: undefined behaviour.  The
\* process dies of the access violation, or survives with a path of
\* whatever was read.
IntoNull ==
    /\ phase = "running"
    /\ Top.pc = "into"
    /\ Top.raw = NULL
    /\ \/ /\ phase' = "crashed"
          /\ stack' = stack
       \/ /\ phase' = phase
          /\ stack' = SetTop([ Top EXCEPT !.path = Garbage, !.pc = "drop" ])
    /\ UNCHANGED << context, op, location, ret, result, heap >>

\* A slip in Drop: the buffer is never handed back.
CoTaskMemFree_Skipped(p) == heap

\* CoTaskMemFree(p): nothing for a null pointer.
CoTaskMemFree(p) ==
    IF p = NULL THEN heap
    ELSE [ heap EXCEPT ![p].state = "freed", ![p].frees = @ + 1 ]

\* impl Drop for SafePwstr, run as into() returns (it took self by value).
Drop ==
    /\ phase = "running"
    /\ Top.pc = "drop"
    /\ heap' = CoTaskMemFree(Top.raw)
    /\ stack' = SetTop([ Top EXCEPT !.pc = "branch" ])
    /\ UNCHANGED << context, phase, op, location, ret, result >>

(***************************************************************************)
(* windows.rs: writable_location_impl                                      *)
(***************************************************************************)
\* let loc2 = if location == CacheLocation { AppLocalData } else { GenericData }
Loc2(loc) ==
    IF loc = CacheLocation THEN "AppLocalDataLocation" ELSE "GenericDataLocation"

\* let id = match location { ... }
FolderIdOf(loc) ==
    CASE loc = "DesktopLocation"       -> FOLDERID_Desktop
      [] loc = "DocumentsLocation"     -> FOLDERID_Documents
      [] loc = "FontsLocation"         -> FOLDERID_Fonts
      [] loc = "ApplicationsLocation"  -> FOLDERID_Programs
      [] loc = "MusicLocation"         -> FOLDERID_Music
      [] loc = "MoviesLocation"        -> FOLDERID_Videos
      [] loc = "PicturesLocation"      -> FOLDERID_Pictures
      [] loc = "AppLocalDataLocation"  -> FOLDERID_LocalAppData
      [] loc = "GenericDataLocation"   -> FOLDERID_LocalAppData
      [] loc = "ConfigLocation"        -> FOLDERID_LocalAppData
      [] loc = "GenericConfigLocation" -> FOLDERID_LocalAppData
      [] loc = "AppDataLocation"       -> FOLDERID_RoamingAppData
      [] loc = "AppConfigLocation"     -> FOLDERID_LocalAppData
      [] OTHER                         -> GUID_Zero

\* A slip in the list of suffixed kinds: the generic data kind is in it.
IsAppSpecific_WithGenericData(loc) ==
    loc \in { "ConfigLocation", "AppConfigLocation", "AppDataLocation",
              "AppLocalDataLocation", "GenericDataLocation" }

\* The kinds whose known folder gets the organization and application.
IsAppSpecific(loc) ==
    loc \in { "ConfigLocation", "AppConfigLocation", "AppDataLocation",
              "AppLocalDataLocation" }

\* A slip in the fallback of the downloads folder: the desktop.
DownloadFallbackLocation_Desktop == "DesktopLocation"

\* The kind the downloads folder falls back to.
DownloadFallbackLocation == "DocumentsLocation"

\* DownloadLocation => sh_get_known_folder_path!(FOLDERID_Downloads, ...
DownloadArm ==
    /\ Running("writable", "start")
    /\ Top.location = "DownloadLocation"
    /\ stack' = SetTop([ Top EXCEPT !.id = FOLDERID_Downloads, !.pc = "query" ])
    /\ UNCHANGED << context, phase, op, location, ret, result, heap >>

\* { Some(path) }
DownloadThen ==
    /\ Running("writable", "branch")
    /\ Top.location = "DownloadLocation"
    /\ Top.ok
    /\ Return(Some(Top.path))
    /\ UNCHANGED << context, op, location, heap >>

\* { self.writable_location(DocumentsLocation) }
DownloadElse ==
    /\ Running("writable", "branch")
    /\ Top.location = "DownloadLocation"
    /\ ~Top.ok
    /\ CallWritable(Top, "fallback", DownloadFallbackLocation)
    /\ UNCHANGED << context, phase, op, location, ret, result, heap >>

\* ... and the value of the fallback is the value of the call.
DownloadFallback ==
    /\ Running("writable", "fallback")
    /\ Return(ret)
    /\ UNCHANGED << context, op, location, heap >>

\* CacheLocation | GenericCacheLocation => match self.writable_location(loc2)
CacheArm ==
    /\ Running("writable", "start")
    /\ Top.location \in { CacheLocation, "GenericCacheLocation" }
    /\ CallWritable(Top, "cache", Loc2(Top.location))
    /\ UNCHANGED << context, phase, op, location, ret, result, heap >>

\* A slip in the cache arm: the data location is returned as it is.
CacheResult_NoSegment(r) == r

\* Some(mut path) => { path.push("cache"); Some(path) }, _ => None
CacheResult(r) ==
    IF r # None THEN Some(Push(r[1], << "cache" >>)) ELSE None

CacheReturn ==
    /\ Running("writable", "cache")
    /\ Return(CacheResult(ret))
    /\ UNCHANGED << context, op, location, heap >>

\* RuntimeLocation | HomeLocation => env::home_dir()
HomeArm ==
    /\ Running("writable", "start")
    /\ Top.location \in { "RuntimeLocation", "HomeLocation" }
    /\ Return(IF "home_dir" \in failing THEN None ELSE Some(HomeDir))
    /\ UNCHANGED << context, op, location, heap >>

\* TempLocation => Some(env::temp_dir())
TempArm ==
    /\ Running("writable", "start")
    /\ Top.location = "TempLocation"
    /\ Return(Some(TempDir))
    /\ UNCHANGED << context, op, location, heap >>

\* _ => { let id = ...; sh_get_known_folder_path!(id, ...
KnownFolderArm ==
    /\ Running("writable", "start")
    /\ Top.location \notin { "DownloadLocation", CacheLocation, "GenericCacheLocation",
                             "RuntimeLocation", "HomeLocation", "TempLocation" }
    /\ stack' = SetTop([ Top EXCEPT !.id = FolderIdOf(Top.location), !.pc = "query" ])
    /\ UNCHANGED << context, phase, op, location, ret, result, heap >>

\* { if location == ... { self.append_organization_and_app(&mut path); } Some(path) }
KnownFolderThen ==
    /\ Running("writable", "branch")
    /\ Top.location # "DownloadLocation"
    /\ Top.ok
    /\ Return(Some(IF IsAppSpecific(Top.location)
                   THEN append_organization_and_app(Top.path)
                   ELSE Top.path))
    /\ UNCHANGED << context, op, location, heap >>

\* { None }
KnownFolderElse ==
    /\ Running("writable", "branch")
    /\ Top.location # "DownloadLocation"
    /\ ~Top.ok
    /\ Return(None)
    /\ UNCHANGED << context, op, location, heap >>

(***************************************************************************)
(* windows.rs: standard_locations_impl                                     *)
(***************************************************************************)
\* A slip in the list of kinds with shared folders: the temporary kind is in it.
HasSharedLocations_WithTemp(loc) ==
    loc \in { "ConfigLocation", "AppConfigLocation", "AppDataLocation",
              "AppLocalDataLocation", "GenericConfigLocation", "GenericDataLocation",
              "TempLocation" }

\* The kinds that also list the program data and the executable's folders.
HasSharedLocations(loc) ==
    loc \in { "ConfigLocation", "AppConfigLocation", "AppDataLocation",
              "AppLocalDataLocation", "GenericConfigLocation", "GenericDataLocation" }

\* if location != GenericConfigLocation && location != GenericDataLocation
SharedIsAppSpecific(loc) ==
    loc # "GenericConfigLocation" /\ loc # "GenericDataLocation"

\* A slip in the order of the executable's folders: "data" first.
ExeDirs_DataFirst(parent) == << Push(parent, << "data" >>), parent >>

\* dirs.push(parent.clone()); parent.push("data"); dirs.push(parent);
ExeDirs(parent) == << parent, Push(parent, << "data" >>) >>

\* match env::current_exe() { Ok(path) => match path.parent() { Some(parent) => ...
CurrentExeDirs ==
    IF "current_exe" \in failing THEN << >>
    ELSE IF Parent(ExePath) = None THEN << >>
    ELSE ExeDirs(Parent(ExePath)[1])

\* let mut dirs = Vec::new(); match self.writable_location(location.clone())
StandardStart ==
    /\ Running("standard", "start")
    /\ CallWritable([ Top EXCEPT !.dirs = << >> ], "writable", Top.location)
    /\ UNCHANGED << context, phase, op, location, ret, result, heap >>

\* Some(path) => dirs.push(path), _ => ()
WithWritable(dirs, r) == IF r # None THEN Append(dirs, r[1]) ELSE dirs

\* ... then the program data folder for the kinds that have one,
StandardShared ==
    /\ Running("standard", "writable")
    /\ HasSharedLocations(Top.location)
    /\ stack' = SetTop([ Top EXCEPT !.dirs = WithWritable(Top.dirs, ret),
                                    !.id = FOLDERID_ProgramData, !.pc = "query" ])
    /\ UNCHANGED << context, phase, op, location, ret, result, heap >>

\* ... and Some(dirs) at once for the others.
StandardOnlyWritable ==
    /\ Running("standard", "writable")
    /\ ~HasSharedLocations(Top.location)
    /\ Return(Some(WithWritable(Top.dirs, ret)))
    /\ UNCHANGED << context, op, location, heap >>

\* { if location != ... { self.append_organization_and_app(&mut path); } dirs.push(path); }
StandardThen ==
    /\ Running("standard", "branch")
    /\ Top.ok
    /\ stack' = SetTop([ Top EXCEPT
                           !.dirs = Append(@, IF SharedIsAppSpecific(Top.location)
                                              THEN append_organization_and_app(Top.path)
                                              ELSE Top.path),
                           !.pc = "exe" ])
    /\ UNCHANGED << context, phase, op, location, ret, result, heap >>

\* {}
StandardElse ==
    /\ Running("standard", "branch")
    /\ ~Top.ok
    /\ stack' = SetTop([ Top EXCEPT !.pc = "exe" ])
    /\ UNCHANGED << context, phase, op, location, ret, result, heap >>

\* match env::current_exe() { ... }  Some(dirs)
StandardExe ==
    /\ Running("standard", "exe")
    /\ Return(Some(Top.dirs \o CurrentExeDirs))
    /\ UNCHANGED << context, op, location, heap >>

Next ==
    \/ writable_location
    \/ standard_locations
    \/ SHGetKnownFolderPath
    \/ Into
    \/ IntoNull
    \/ Drop
    \/ DownloadArm
    \/ DownloadThen
    \/ DownloadElse
    \/ DownloadFallback
    \/ CacheArm
    \/ CacheReturn
    \/ HomeArm
    \/ TempArm
    \/ KnownFolderArm
    \/ KnownFolderThen
    \/ KnownFolderElse
    \/ StandardStart
    \/ StandardShared
    \/ StandardOnlyWritable
    \/ StandardThen
    \/ StandardElse
    \/ StandardExe

Spec == Init /\ [][Next]_vars

(***************************************************************************)
(* The properties.  They speak of the engine in the words of its           *)
(* description: resolve_writable is writable_location, resolve_all is      *)
(* standard_locations.                                                     *)
(***************************************************************************)
Done(o, loc) == phase = "done" /\ op = o /\ location = loc

Resolves(id) == id \notin failing

\* A name with neither a drive prefix nor a root ("" included).
IsRelative(name) == name = << >> \/ (name[1] \notin Prefixes /\ name[1] # RootMark)

AppSpecificKinds ==
    { "AppDataLocation", "AppLocalDataLocation", "ConfigLocation", "AppConfigLocation" }
GenericKinds == { "GenericDataLocation", "GenericConfigLocation" }
SharedKinds == AppSpecificKinds \cup GenericKinds

\* The known folder a data or configuration kind is based on: the roaming
\* application data for AppData, the local application data for the others.
BaseFolder(loc) ==
    KnownFolder(IF loc = "AppDataLocation" THEN "RoamingAppData" ELSE "LocalAppData")
BaseResolves(loc) ==
    Resolves(IF loc = "AppDataLocation" THEN "RoamingAppData" ELSE "LocalAppData")

\* The entries of a list before the program data entry: the writable one, if any.
WritableEntries == IF ret = None THEN << >> ELSE << ret[1] >>

\* Some frame has converted the buffer of a query that had reported failure.
ReadAfterFailure ==
    \E i \in 1..Len(stack) : stack[i].pc \in { "drop", "branch" } /\ ~stack[i].ok

\* C1: for every kind and every combination of outcomes of the system's
\* queries, resolve_writable and resolve_all complete without crashing, a
\* failed known-folder query gives None from resolve_writable (a fallback
\* apart), and the path buffer is never read once the query has reported
\* failure.
C1_FailuresDegradeWithoutReadingTheBuffer ==
    /\ phase # "crashed"
    /\ ~ReadAfterFailure
    /\ \A loc \in LocationType :
          Done("writable_location", loc) /\ FolderIdOf(loc) \in FolderIds \cap failing
             => result = None

\* C2 as written: for ANY names, the two generic kinds resolve to the base
\* known folder alone and the four application kinds to the base known
\* folder followed by the organization and the application; the program
\* data entry of resolve_all likewise.
C2_SuffixOnlyOnAppKinds_AnyNames ==
    /\ \A loc \in GenericKinds :
          Done("writable_location", loc) /\ BaseResolves(loc)
             => result = Some(BaseFolder(loc))
    /\ \A loc \in AppSpecificKinds :
          Done("writable_location", loc) /\ BaseResolves(loc)
             => result = Some(BaseFolder(loc) \o organisation_name \o app_name)
    /\ \A loc \in GenericKinds :
          Done("standard_locations", loc) /\ Resolves("ProgramData")
             => /\ Len(result[1]) > Len(WritableEntries)
                /\ result[1][Len(WritableEntries) + 1] = KnownFolder("ProgramData")
    /\ \A loc \in AppSpecificKinds :
          Done("standard_locations", loc) /\ Resolves("ProgramData")
             => /\ Len(result[1]) > Len(WritableEntries)
                /\ result[1][Len(WritableEntries) + 1] =
                      KnownFolder("ProgramData") \o organisation_name \o app_name

\* C2 amended: the generic kinds resolve to the base known folder alone for
\* any names; the application kinds resolve to the base known folder
\* followed by the organization and the application when both names are
\* relative (no drive prefix, no root); the program data entry likewise.
C2_SuffixOnlyOnAppKinds ==
    /\ \A loc \in GenericKinds :
          Done("writable_location", loc) /\ BaseResolves(loc)
             => result = Some(BaseFolder(loc))
    /\ \A loc \in AppSpecificKinds :
          /\ Done("writable_location", loc)
          /\ BaseResolves(loc)
          /\ IsRelative(organisation_name)
          /\ IsRelative(app_name)
          => result = Some(BaseFolder(loc) \o organisation_name \o app_name)
    /\ \A loc \in GenericKinds :
          Done("standard_locations", loc) /\ Resolves("ProgramData")
             => /\ Len(result[1]) > Len(WritableEntries)
                /\ result[1][Len(WritableEntries) + 1] = KnownFolder("ProgramData")
    /\ \A loc \in AppSpecificKinds :
          /\ Done("standard_locations", loc)
          /\ Resolves("ProgramData")
          /\ IsRelative(organisation_name)
          /\ IsRelative(app_name)
          => /\ Len(result[1]) > Len(WritableEntries)
             /\ result[1][Len(WritableEntries) + 1] =
                   KnownFolder("ProgramData") \o organisation_name \o app_name

\* The application data folder of an application with both names set.
C2_Witness ==
    /\ Done("writable_location", "AppDataLocation")
    /\ organisation_name = << "org" >>
    /\ app_name = << "app" >>
    /\ result = Some(<< "C:", "RoamingAppData", "org", "app" >>)

\* The final n components of a path.
LastN(path, n) == SubSeq(path, Len(path) - n + 1, Len(path))

\* C3 as written: whatever the names, the resolved path of an application
\* kind is its base followed by the organization (when not empty) and then
\* the application (when not empty), each once.
C3_OrganizationThenApp_AnyNames ==
    \A loc \in AppSpecificKinds :
       Done("writable_location", loc) /\ BaseResolves(loc)
          => LET n == Len(organisation_name) + Len(app_name)
             IN  /\ Len(result[1]) = Len(BaseFolder(loc)) + n
                 /\ LastN(result[1], n) = organisation_name \o app_name

\* C3 amended: when both names are relative (no drive prefix, no root), the
\* resolved path of an application kind is its base followed by the
\* organization (when not empty) and then the application (when not empty),
\* each once; with organization "org" and application "app" the final two
\* components of AppConfig are org, app.
C3_OrganizationThenApp ==
    /\ \A loc \in AppSpecificKinds :
          /\ Done("writable_location", loc)
          /\ BaseResolves(loc)
          /\ IsRelative(organisation_name)
          /\ IsRelative(app_name)
          => LET n == Len(organisation_name) + Len(app_name)
             IN  /\ Len(result[1]) = Len(BaseFolder(loc)) + n
                 /\ LastN(result[1], n) = organisation_name \o app_name
    /\ /\ Done("writable_location", "AppConfigLocation")
       /\ Resolves("LocalAppData")
       /\ organisation_name = << "org" >>
       /\ app_name = << "app" >>
       => LastN(result[1], 2) = << "org", "app" >>

\* The configuration folder of application "app" of organization "org".
C3_Witness ==
    /\ Done("writable_location", "AppConfigLocation")
    /\ organisation_name = << "org" >>
    /\ app_name = << "app" >>
    /\ result = Some(<< "C:", "LocalAppData", "org", "app" >>)

\* C4: with both names empty, resolve_writable of AppData, AppConfig,
\* AppLocalData and AppCache is the base folder of the kind with no
\* organization or application in it (for AppCache: the local application
\* data, or the cache folder in it).
C4_EmptyNamesGiveBaseFolder ==
    /\ \A loc \in { "AppDataLocation", "AppConfigLocation", "AppLocalDataLocation" } :
          /\ Done("writable_location", loc)
          /\ BaseResolves(loc)
          /\ organisation_name = << >>
          /\ app_name = << >>
          => result = Some(BaseFolder(loc))
    /\ /\ Done("writable_location", "AppCacheLocation")
       /\ Resolves("LocalAppData")
       /\ organisation_name = << >>
       /\ app_name = << >>
       => result \in { Some(KnownFolder("LocalAppData")),
                       Some(KnownFolder("LocalAppData") \o << "cache" >>) }

\* What resolve_writable(Documents) is in this state of the system.
DocumentsResult ==
    IF Resolves("Documents") THEN Some(KnownFolder("Documents")) ELSE None

\* C5: resolve_writable(Download) is the Downloads known folder when that
\* query succeeds, and otherwise exactly what resolve_writable(Documents)
\* returns (None included).
C5_DownloadFallsBackToDocuments ==
    /\ Done("writable_location", "DocumentsLocation") => result = DocumentsResult
    /\ Done("writable_location", "DownloadLocation")
          => result = IF Resolves("Downloads")
                      THEN Some(KnownFolder("Downloads"))
                      ELSE DocumentsResult

\* The Downloads query failed and the documents folder came back.
C5_Witness ==
    /\ Done("writable_location", "DownloadLocation")
    /\ ~Resolves("Downloads")
    /\ result = Some(KnownFolder("Documents"))

C7_AppDataOrder ==
    Done("standard_locations", "AppDataLocation")
       => /\ WritableEntries =
                IF Resolves("RoamingAppData")
                THEN << append_organization_and_app(KnownFolder("RoamingAppData")) >>
                ELSE << >>
          /\ result = Some(
                WritableEntries
                \o (IF Resolves("ProgramData")
                    THEN << append_organization_and_app(KnownFolder("ProgramData")) >>
                    ELSE << >>)
                \o (IF Resolves("current_exe")
                    THEN << << "C:", "bin" >>, << "C:", "bin", "data" >> >>
                    ELSE << >>))

\* All four entries are there.
C7_Witness ==
    /\ Done("standard_locations", "AppDataLocation")
    /\ organisation_name = << "org" >>
    /\ app_name = << "app" >>
    /\ result = Some(<< << "C:", "RoamingAppData", "org", "app" >>,
                        << "C:", "ProgramData", "org", "app" >>,
                        << "C:", "bin" >>,
                        << "C:", "bin", "data" >> >>)

\* What resolve_writable(GenericData) is in this state of the system.
GenericDataResult ==
    IF Resolves("LocalAppData") THEN Some(KnownFolder("LocalAppData")) ELSE None

\* C8: resolve_writable(GenericCache) is resolve_writable(GenericData) with
\* the one component "cache" appended when GenericData resolves; when it
\* does not, both are None.
C8_GenericCacheIsGenericDataCache ==
    /\ Done("writable_location", "GenericDataLocation") => result = GenericDataResult
    /\ Done("writable_location", "GenericCacheLocation")
          => result = IF GenericDataResult = None
                      THEN None
                      ELSE Some(GenericDataResult[1] \o << "cache" >>)

\* The generic cache folder.
C8_Witness ==
    /\ Done("writable_location", "GenericCacheLocation")
    /\ result = Some(<< "C:", "LocalAppData", "cache" >>)

\* C9: resolve_writable(AppCache) is resolve_writable(AppLocalData), its
\* suffix included, with the one component "cache" appended, and None when
\* AppLocalData does not resolve.
C9_AppCacheIsAppLocalDataCache ==
    Done("writable_location", "AppCacheLocation")
       => result = IF Resolves("LocalAppData")
                   THEN Some(append_organization_and_app(KnownFolder("LocalAppData"))
                             \o << "cache" >>)
                   ELSE None

\* C10: every buffer a known-folder query hands out is released exactly
\* once before the call that made the query goes on or returns, on the
\* success path and on the failure path, and is never read after release:
\* a buffer is live only from the query to the drop of the frame that made
\* it, and no buffer is freed twice or read once freed.
C10_BuffersReleasedExactlyOnce ==
    \A b \in 1..Len(heap) :
       /\ heap[b].frees <= 1
       /\ ~heap[b].stale
       /\ heap[b].state = "freed" => heap[b].frees = 1
       /\ heap[b].state = "live"
             => /\ phase = "running"
                /\ Top.raw = b
                /\ Top.pc \in { "into", "drop" }

\* A call that made two queries, the first of which failed and handed out a
\* buffer, has returned with both buffers freed.
C10_Witness ==
    /\ Done("writable_location", "DownloadLocation")
    /\ Len(heap) = 2
    /\ heap[1].content = << >>
    /\ heap[2].content = KnownFolder("Documents")
    /\ \A b \in 1..2 : heap[b].state = "freed" /\ heap[b].frees = 1

====
